---------------------------- MODULE Spec2Model ----------------------------
(***************************************************************************)
(* Model of NetworkSummarizer (ospf_generator.py): the route summarization *)
(* engine behind get_optimized_networks.                                   *)
(*                                                                         *)
(* An IPv4 address is the tuple of its four octets (its `packed` bytes),   *)
(* a network is [addr, len] with the host bits of addr zero, and a network *)
(* string is [form, addr, len]: form "cidr" is the text "a.b.c.d/len"      *)
(* (possibly written with host bits set), form "junk" a text that          *)
(* ipaddress.ip_network rejects.  IPv6 texts are not modelled.             *)
(***************************************************************************)
EXTENDS Integers, Sequences, FiniteSets, TLC

VARIABLES networks, optimized, summaries, groupLog, pairLog, pc

vars == <<networks, optimized, summaries, groupLog, pairLog, pc>>

-----------------------------------------------------------------------------
(* Bounds of the model *)

MaxLen == 3

-----------------------------------------------------------------------------
(* Program constants *)

AddrBits == 32
MinScanPrefix == 8
MaxScanPrefix == 28
MaxPairPrefix == 28
EfficiencyDenominator == 20

-----------------------------------------------------------------------------
(* ipaddress: addresses and networks *)

Pow2(n) == 2 ^ n

Max2(a, b) == IF a >= b THEN a ELSE b

\* number of network bits of a /L prefix that fall in octet i (1..4)
KeptBits(i, L) ==
    IF L >= 8 * i THEN 8 ELSE IF L <= 8 * (i - 1) THEN 0 ELSE L - 8 * (i - 1)

\* the address with its host bits (those after the first L) cleared
MaskOctet(octet, i, L) == octet - (octet % Pow2(8 - KeptBits(i, L)))

MaskAddr(addr, L) ==
    <<MaskOctet(addr[1], 1, L), MaskOctet(addr[2], 2, L),
      MaskOctet(addr[3], 3, L), MaskOctet(addr[4], 4, L)>>

\* a network address with the host bits (those after the first L) set
FillOctet(octet, i, L) == octet + Pow2(8 - KeptBits(i, L)) - 1

HostOnes(addr, L) ==
    <<FillOctet(addr[1], 1, L), FillOctet(addr[2], 2, L),
      FillOctet(addr[3], 3, L), FillOctet(addr[4], 4, L)>>

\* IPv4Address ordering: by integer value, i.e. lexicographic on the octets
AddrLess(a, b) ==
    \/ a[1] < b[1]
    \/ a[1] = b[1] /\ a[2] < b[2]
    \/ a[1] = b[1] /\ a[2] = b[2] /\ a[3] < b[3]
    \/ a[1] = b[1] /\ a[2] = b[2] /\ a[3] = b[3] /\ a[4] < b[4]

AddrLeq(a, b) == ~AddrLess(b, a)

Network(addr, len) == [addr |-> MaskAddr(addr, len), len |-> len]

broadcast_address(net) == HostOnes(net.addr, net.len)

num_addresses(net) == Pow2(AddrBits - net.len)

\* subnet_of with the comparison of the broadcast addresses left out
subnet_of_StartOnly(a, b) == AddrLeq(b.addr, a.addr)

\* a.subnet_of(b)
subnet_of(a, b) ==
    /\ AddrLeq(b.addr, a.addr)
    /\ AddrLeq(broadcast_address(a), broadcast_address(b))

\* net.supernet(): one bit shorter; the /0 network is its own supernet
supernet(net) ==
    IF net.len = 0 THEN net ELSE Network(net.addr, net.len - 1)

\* _BaseNetwork.__lt__: by network address, then by netmask
NetLess(a, b) ==
    \/ AddrLess(a.addr, b.addr)
    \/ a.addr = b.addr /\ a.len < b.len

-----------------------------------------------------------------------------
(* Network strings *)

Cidr(addr, len) == [form |-> "cidr", addr |-> addr, len |-> len]
Junk(n) == [form |-> "junk", addr |-> <<0, 0, 0, 0>>, len |-> n]

\* ipaddress.ip_network(text, strict=False) succeeds
Parsable(s) == s.form = "cidr"

\* ipaddress.ip_network(text, strict=False): host bits are masked off
ip_network(s) == Network(s.addr, s.len)

\* str(net): the canonical text of a network
Str(net) == Cidr(net.addr, net.len)

-----------------------------------------------------------------------------
(* Sequence helpers *)

RECURSIVE SelectParsed(_)
SelectParsed(strs) ==
    IF strs = <<>> THEN <<>>
    ELSE IF Parsable(Head(strs))
         THEN <<ip_network(Head(strs))>> \o SelectParsed(Tail(strs))
         ELSE SelectParsed(Tail(strs))

Range(s) == {s[i] : i \in DOMAIN s}

\* sort key comparison: (network_address, prefixlen) when byLen, else
\* network_address alone
KeyLess(a, b, byLen) ==
    \/ AddrLess(a.addr, b.addr)
    \/ byLen /\ a.addr = b.addr /\ a.len < b.len

\* x placed after every element whose key is not greater: keeps the sort stable
RECURSIVE InsertSorted(_, _, _)
InsertSorted(x, s, byLen) ==
    IF s = <<>> THEN <<x>>
    ELSE IF KeyLess(x, Head(s), byLen) THEN <<x>> \o s
         ELSE <<Head(s)>> \o InsertSorted(x, Tail(s), byLen)

\* list.sort / sorted with a key: a stable sort
RECURSIVE StableSort(_, _)
StableSort(s, byLen) ==
    IF s = <<>> THEN <<>>
    ELSE InsertSorted(s[Len(s)], StableSort(SubSeq(s, 1, Len(s) - 1), byLen), byLen)

\* [str(net) for net in nets]
RECURSIVE StrAll(_)
StrAll(nets) ==
    IF nets = <<>> THEN <<>> ELSE <<Str(Head(nets))>> \o StrAll(Tail(nets))

MinPrefixLen(nets) ==
    CHOOSE m \in {nets[i].len : i \in DOMAIN nets} :
        \A i \in DOMAIN nets : m <= nets[i].len

MinAddr(nets) ==
    CHOOSE a \in {nets[i].addr : i \in DOMAIN nets} :
        \A i \in DOMAIN nets : AddrLeq(a, nets[i].addr)

RECURSIVE SumAddresses(_)
SumAddresses(nets) ==
    IF nets = <<>> THEN 0
    ELSE num_addresses(Head(nets)) + SumAddresses(Tail(nets))

-----------------------------------------------------------------------------
(* ipaddress.collapse_addresses *)

\* the merge loop with to_merge.append(supernet) left out: two sibling
\* networks are deleted and their supernet is never put back
RECURSIVE CollapseMerge_NoAppend(_, _)
CollapseMerge_NoAppend(to_merge, subnets) ==
    IF to_merge = <<>> THEN subnets
    ELSE LET net == to_merge[Len(to_merge)]
             rest == SubSeq(to_merge, 1, Len(to_merge) - 1)
             sup == supernet(net)
             existing == {p \in subnets : p[1] = sup}
         IN  IF existing = {}
             THEN CollapseMerge_NoAppend(rest, subnets \cup {<<sup, net>>})
             ELSE IF (CHOOSE p \in existing : TRUE)[2] # net
                  THEN CollapseMerge_NoAppend(rest, subnets \ existing)
                  ELSE CollapseMerge_NoAppend(rest, subnets)

\* the merge loop of _collapse_addresses_internal: to_merge is a stack,
\* subnets a dict kept as the set of its <<supernet, net>> items
RECURSIVE CollapseMerge(_, _)
CollapseMerge(to_merge, subnets) ==
    IF to_merge = <<>> THEN subnets
    ELSE LET net == to_merge[Len(to_merge)]
             rest == SubSeq(to_merge, 1, Len(to_merge) - 1)
             sup == supernet(net)
             existing == {p \in subnets : p[1] = sup}
         IN  IF existing = {} THEN CollapseMerge(rest, subnets \cup {<<sup, net>>})
             ELSE IF (CHOOSE p \in existing : TRUE)[2] # net
                  THEN CollapseMerge(Append(rest, sup), subnets \ existing)
                  ELSE CollapseMerge(rest, subnets)

\* sorted(subnets.values())
RECURSIVE SortNets(_)
SortNets(S) ==
    IF S = {} THEN <<>>
    ELSE LET m == CHOOSE x \in S : \A y \in S : x = y \/ NetLess(x, y)
         IN  <<m>> \o SortNets(S \ {m})

\* the second loop: a net whose broadcast address does not pass that of the
\* last net yielded is subsumed and skipped
RECURSIVE SkipSubsumed(_, _)
SkipSubsumed(sorted, out) ==
    IF sorted = <<>> THEN out
    ELSE LET net == Head(sorted)
         IN  IF out # <<>> /\ AddrLeq(broadcast_address(net),
                                      broadcast_address(out[Len(out)]))
             THEN SkipSubsumed(Tail(sorted), out)
             ELSE SkipSubsumed(Tail(sorted), Append(out, net))

\* collapse_addresses first turns the /32 networks into address ranges and
\* the ranges into blocks; merging them pair by pair, as done here for every
\* length, gives the same blocks
collapse_addresses(nets) ==
    SkipSubsumed(SortNets({p[2] : p \in CollapseMerge(nets, {})}), <<>>)

-----------------------------------------------------------------------------
(* Python dicts: insertion ordered, kept as a sequence of [key, val] items *)

DictKeys(d) == {d[i].key : i \in DOMAIN d}

DictGet(d, k) == d[CHOOSE i \in DOMAIN d : d[i].key = k].val

\* d[k] = v: a new key goes last, an existing key keeps its place
DictSet(d, k, v) ==
    IF k \in DictKeys(d)
    THEN LET i == CHOOSE n \in DOMAIN d : d[n].key = k
         IN  SubSeq(d, 1, i - 1) \o <<[key |-> k, val |-> v]>>
                 \o SubSeq(d, i + 1, Len(d))
    ELSE Append(d, [key |-> k, val |-> v])

\* d.update(e)
RECURSIVE DictUpdate(_, _)
DictUpdate(d, e) ==
    IF e = <<>> THEN d
    ELSE DictUpdate(DictSet(d, Head(e).key, Head(e).val), Tail(e))

-----------------------------------------------------------------------------
(* NetworkSummarizer *)

\* a summary result (summary_net, original_nets), or None
Summary(net, nets) == [ok |-> TRUE, summary |-> Str(net), originals |-> StrAll(nets)]
None == [ok |-> FALSE, summary |-> Junk(0), originals |-> <<>>]

\* a classifier that puts every network under one key
major_key_Single(net) == <<0>>

\* the classification key of a network, from the first two address bytes
major_key(net) ==
    IF net.addr[1] = 10 THEN <<10>>
    ELSE IF net.addr[1] = 172 /\ 16 <= net.addr[2] /\ net.addr[2] <= 31
         THEN <<172, net.addr[2]>>
    ELSE IF net.addr[1] = 192 /\ net.addr[2] = 168 THEN <<192, 168>>
    ELSE <<net.addr[1], net.addr[2]>>

\* the groups dict after the loop over the networks
RECURSIVE GroupDict(_, _)
GroupDict(nets, groups) ==
    IF nets = <<>> THEN groups
    ELSE LET key == major_key(Head(nets))
             old == IF key \in DictKeys(groups) THEN DictGet(groups, key) ELSE <<>>
         IN  GroupDict(Tail(nets), DictSet(groups, key, Append(old, Head(nets))))

\* [group for group in groups.values() if len(group) > 1]
RECURSIVE MultiValues(_)
MultiValues(groups) ==
    IF groups = <<>> THEN <<>>
    ELSE (IF Len(Head(groups).val) > 1 THEN <<Head(groups).val>> ELSE <<>>)
             \o MultiValues(Tail(groups))

group_by_major_network_class(nets) == MultiValues(GroupDict(nets, <<>>))

\* Step A of _find_tightest_summary: collapse_addresses gives one network
\* that is shorter than every member
StepA(sorted_networks) ==
    LET collapsed == collapse_addresses(sorted_networks)
    IN  IF /\ Len(collapsed) = 1
           /\ collapsed[1].len < MinPrefixLen(sorted_networks)
        THEN Summary(collapsed[1], sorted_networks)
        ELSE None

\* efficiency = used_addresses / total_addresses, kept as the exact fraction;
\* total is a power of two
Efficiency(used, total) == [used |-> used, total |-> total]

\* e > f on fractions whose denominators are powers of two
EffGreater(e, f) ==
    IF e.total <= f.total
    THEN e.used > f.used \div (f.total \div e.total)
    ELSE e.used >= 1 /\ f.used <= (e.used - 1) \div (e.total \div f.total)

\* the early accept with a threshold of 10% instead of 5%
VeryEfficient_Tenth(e) == 10 * e.used >= e.total

\* efficiency >= 0.05: used / total is a fraction with a power of two below
\* it, which is never within float rounding of 1/20, so the test is
\* 20 * used >= total
VeryEfficient(e) == EfficiencyDenominator * e.used >= e.total

\* Step B: the loop over prefix_len from the current one to /28, and the
\* return of best_summary after it
RECURSIVE ScanPrefix(_, _, _, _, _)
ScanPrefix(prefix_len, sorted_networks, min_addr, best_summary, best_efficiency) ==
    IF prefix_len > MaxScanPrefix
    THEN IF best_summary.ok /\ EffGreater(best_efficiency, Efficiency(0, 1))
         THEN best_summary ELSE None
    ELSE LET summary_candidate == Network(min_addr, prefix_len)
             contains == \A i \in DOMAIN sorted_networks :
                             subnet_of(sorted_networks[i], summary_candidate)
             efficiency == Efficiency(SumAddresses(sorted_networks),
                                      num_addresses(summary_candidate))
             shorter == prefix_len < MinPrefixLen(sorted_networks)
             found == Summary(summary_candidate, sorted_networks)
         IN  IF contains /\ shorter /\ VeryEfficient(efficiency) THEN found
             ELSE IF contains /\ shorter /\ EffGreater(efficiency, best_efficiency)
                  THEN ScanPrefix(prefix_len + 1, sorted_networks, min_addr,
                                  found, efficiency)
                  ELSE ScanPrefix(prefix_len + 1, sorted_networks, min_addr,
                                  best_summary, best_efficiency)

StepB(sorted_networks) ==
    ScanPrefix(MinScanPrefix, sorted_networks, MinAddr(sorted_networks),
               None, Efficiency(0, 1))

find_tightest_summary(group_networks) ==
    IF Len(group_networks) < 2 THEN None
    ELSE LET sorted_networks == StableSort(group_networks, FALSE)
             collapsed == StepA(sorted_networks)
         IN  IF collapsed.ok THEN collapsed ELSE StepB(sorted_networks)

\* per group handed to _find_tightest_summary: its members and the result
RECURSIVE RunGroups(_)
RunGroups(major_groups) ==
    IF major_groups = <<>> THEN <<>>
    ELSE (IF Len(Head(major_groups)) < 2 THEN <<>>
          ELSE <<[members |-> Head(major_groups),
                  result |-> find_tightest_summary(Head(major_groups))]>>)
             \o RunGroups(Tail(major_groups))

GroupResults(nets) == RunGroups(group_by_major_network_class(nets))

RECURSIVE DictOfResults(_, _)
DictOfResults(results, d) ==
    IF results = <<>> THEN d
    ELSE DictOfResults(Tail(results),
            IF Head(results).result.ok
            THEN DictSet(d, Head(results).result.summary, Head(results).result.originals)
            ELSE d)

find_major_network_summaries(nets) == DictOfResults(GroupResults(nets), <<>>)

\* the originals of every summary of a dict
AllOriginals(d) == UNION {Range(d[i].val) : i \in DOMAIN d}

\* one pair (i, j) of the double loop of _find_contiguous_summaries
PairAccepted(a, b) ==
    LET pair_summary == collapse_addresses(<<a, b>>)
    IN  /\ Len(pair_summary) = 1
        /\ pair_summary[1].len < Max2(a.len, b.len)
        /\ pair_summary[1].len <= MaxPairPrefix

\* the accepted pairs, in the order the double loop finds them
RECURSIVE PairScan(_, _, _)
PairScan(remaining, i, j) ==
    IF i > Len(remaining) THEN <<>>
    ELSE IF j > Len(remaining) THEN PairScan(remaining, i + 1, i + 2)
    ELSE (IF PairAccepted(remaining[i], remaining[j])
          THEN <<[first |-> remaining[i], second |-> remaining[j],
                  summary |-> collapse_addresses(<<remaining[i], remaining[j]>>)[1]]>>
          ELSE <<>>) \o PairScan(remaining, i, j + 1)

RemainingNetworks(nets, existing_summaries) ==
    SelectSeq(nets, LAMBDA n : Str(n) \notin AllOriginals(existing_summaries))

PairResults(nets, existing_summaries) ==
    LET remaining_networks == RemainingNetworks(nets, existing_summaries)
    IN  IF Len(remaining_networks) < 2 THEN <<>>
        ELSE PairScan(remaining_networks, 1, 2)

RECURSIVE DictOfPairs(_, _)
DictOfPairs(pairs, d) ==
    IF pairs = <<>> THEN d
    ELSE DictOfPairs(Tail(pairs),
            DictSet(d, Str(Head(pairs).summary),
                    <<Str(Head(pairs).first), Str(Head(pairs).second)>>))

find_contiguous_summaries(nets, existing_summaries) ==
    DictOfPairs(PairResults(nets, existing_summaries), <<>>)

\* the parsed networks, sorted by (network_address, prefixlen)
NetworkObjects(strs) == StableSort(SelectParsed(strs), TRUE)

find_summary_routes(strs) ==
    IF SelectParsed(strs) = <<>> THEN <<>>
    ELSE LET network_objects == NetworkObjects(strs)
             major == DictUpdate(<<>>, find_major_network_summaries(network_objects))
         IN  DictUpdate(major, find_contiguous_summaries(network_objects, major))

\* the optimized list built from a summaries dict and the input list
RECURSIVE KeyList(_)
KeyList(d) == IF d = <<>> THEN <<>> ELSE <<Head(d).key>> \o KeyList(Tail(d))

\* the leftover loop run over the parsed networks only
OptimizedList_ParsedOnly(strs, sums) ==
    KeyList(sums)
        \o SelectSeq(strs, LAMBDA s : Parsable(s) /\ s \notin AllOriginals(sums))

\* the leftover loop skipped as soon as there is a summary
OptimizedList_SummariesOnly(strs, sums) ==
    IF sums = <<>> THEN strs ELSE KeyList(sums)

OptimizedList(strs, sums) ==
    KeyList(sums) \o SelectSeq(strs, LAMBDA s : s \notin AllOriginals(sums))

-----------------------------------------------------------------------------
(* The input lists of the model *)

\* "10.0.0.0/24" and "10.0.1.0/24" tile 10.0.0.0/23, and with "10.0.2.0/23"
\* 10.0.0.0/22; "10.0.0.5/24" is 10.0.0.0/24 written with host bits set;
\* "10.0.0.0/25" lies inside 10.0.0.0/24 and "10.0.0.0/8" contains the
\* other networks of its group; "10.64.0.0/24"
\* lies far from them; the two 192.168 networks are not adjacent; the two
\* 172 networks are adjacent but fall in two groups; Junk(1) is a text such
\* as "not-a-network"
Universe ==
    { Cidr(<<10, 0, 0, 0>>, 24),   Cidr(<<10, 0, 1, 0>>, 24),
      Cidr(<<10, 0, 0, 5>>, 24),   Cidr(<<10, 0, 2, 0>>, 23),
      Cidr(<<10, 0, 0, 0>>, 25),   Cidr(<<10, 0, 0, 0>>, 8),
      Cidr(<<10, 64, 0, 0>>, 24),
      Cidr(<<192, 168, 1, 0>>, 24), Cidr(<<192, 168, 3, 0>>, 24),
      Cidr(<<172, 16, 0, 0>>, 16),  Cidr(<<172, 17, 0, 0>>, 16),
      Junk(1) }

InputLists == UNION {[1..n -> Universe] : n \in 0..MaxLen}

-----------------------------------------------------------------------------
(* The state machine: one call of get_optimized_networks on an input list *)

Init ==
    /\ networks \in InputLists
    /\ optimized = <<>>
    /\ summaries = <<>>
    /\ groupLog = <<>>
    /\ pairLog = <<>>
    /\ pc = "ready"

\* groupLog and pairLog record what the two stages of find_summary_routes
\* found: each group given to _find_tightest_summary with its result, and
\* each pair _find_contiguous_summaries accepted
get_optimized_networks ==
    /\ pc = "ready"
    /\ summaries' = find_summary_routes(networks)
    /\ optimized' = OptimizedList(networks, summaries')
    /\ groupLog' = GroupResults(NetworkObjects(networks))
    /\ pairLog' = PairResults(NetworkObjects(networks),
                              DictOfResults(groupLog', <<>>))
    /\ pc' = "done"
    /\ UNCHANGED networks

Next == get_optimized_networks

Spec == Init /\ [][Next]_vars

-----------------------------------------------------------------------------
(* Properties *)

Done == pc = "done"

\* containment as the data model states it: the summary is no longer than
\* the original, and the original's address masked to the summary's length
\* is the summary's address
NetContains(s, o) == s.len <= o.len /\ MaskAddr(o.addr, s.len) = s.addr

StrContains(s, o) ==
    Parsable(s) /\ Parsable(o) /\ NetContains(ip_network(s), ip_network(o))

\* the text is the one str() gives for the network it parses to
Canonical(s) == Parsable(s) /\ Str(ip_network(s)) = s

\* Step A accepted the group of a groupLog entry
ExactAccepted(g) == StepA(StableSort(g.members, FALSE)).ok

\* no two of the networks share an address
NonOverlapping(nets) ==
    \A i, j \in DOMAIN nets :
        i # j => ~NetContains(nets[i], nets[j]) /\ ~NetContains(nets[j], nets[i])

\* C1: every summary of the returned mapping has a prefix length strictly
\* less than the prefix length of each original listed for it.
C1_StrictReduction ==
    Done => \A i \in DOMAIN summaries : \A k \in DOMAIN summaries[i].val :
                summaries[i].key.len < summaries[i].val[k].len

C3_NonExpansion == Done => Len(optimized) <= Len(networks)

\* the input list with every unparsable entry removed
WithoutUnparsable(strs) == SelectSeq(strs, Parsable)

\* C4: the optimized list and the mapping are those of the input list with
\* every unparsable entry removed, and no unparsable entry is in the
\* optimized list.
C4_MalformedDropped ==
    Done =>
        /\ summaries = find_summary_routes(WithoutUnparsable(networks))
        /\ optimized = OptimizedList(WithoutUnparsable(networks),
                                     find_summary_routes(WithoutUnparsable(networks)))
        /\ \A k \in DOMAIN optimized : Parsable(optimized[k])

\* C5: an empty or single-element input list is returned unchanged, with an
\* empty mapping.
C5_Degenerate ==
    Done /\ Len(networks) <= 1 => optimized = networks /\ summaries = <<>>

\* a single-element input that is not a canonical network text was processed
C5_Witness ==
    Done /\ Len(networks) = 1 /\ ~Canonical(networks[1]) /\ optimized = networks

\* the blocks that two or more disjoint networks of the list could tile:
\* the supernets of the first one down to the length at which a block has
\* Len(nets) times the addresses of the largest network
TileCandidates(nets) ==
    {Network(nets[1].addr, L) :
        L \in Max2(0, MinPrefixLen(nets) - Len(nets))..(MinPrefixLen(nets) - 1)}

\* the networks are disjoint and fill the block B with no gap
Tiles(nets, B) ==
    /\ NonOverlapping(nets)
    /\ \A i \in DOMAIN nets : NetContains(B, nets[i])
    /\ SumAddresses(nets) = num_addresses(B)

\* two or more canonical texts of one classification group
OneGroupCanonical(strs) ==
    /\ Len(strs) >= 2
    /\ \A i \in DOMAIN strs : Canonical(strs[i])
    /\ \A i \in DOMAIN strs : major_key(ip_network(strs[i])) = major_key(ip_network(strs[1]))

\* the sequence lists exactly the given texts, by ascending network address
SortedByAddress(val, strs) ==
    /\ Len(val) = Len(strs)
    /\ Range(val) = Range(strs)
    /\ \A i, j \in DOMAIN val : i < j => AddrLess(val[i].addr, val[j].addr)

\* C6: an input of two or more canonical, non-overlapping prefixes of one
\* group that exactly tile a block B gives the optimized list [B] and the
\* mapping {B: the members sorted by network address}.
C6_TilingCollapse ==
    Done /\ OneGroupCanonical(networks) =>
        \A B \in TileCandidates(SelectParsed(networks)) :
            Tiles(SelectParsed(networks), B) =>
                /\ optimized = <<Str(B)>>
                /\ Len(summaries) = 1
                /\ summaries[1].key = Str(B)
                /\ SortedByAddress(summaries[1].val, networks)

\* three networks given out of address order tiled one block
C6_Witness ==
    /\ Done /\ Len(networks) = 3 /\ OneGroupCanonical(networks)
    /\ AddrLess(networks[2].addr, networks[1].addr)
    /\ \E B \in TileCandidates(SelectParsed(networks)) :
           Tiles(SelectParsed(networks), B) /\ optimized = <<Str(B)>>

\* C7: whenever an exact collapse is accepted, by Step A for a group or for
\* a pair, the networks it was collapsed from are pairwise non-overlapping
\* and their address counts add up to that of the summary.
C7_ExactCollapseLossless ==
    Done =>
        /\ \A i \in DOMAIN groupLog :
               ExactAccepted(groupLog[i]) =>
                   Tiles(groupLog[i].members, ip_network(groupLog[i].result.summary))
        /\ \A i \in DOMAIN pairLog :
               Tiles(<<pairLog[i].first, pairLog[i].second>>, pairLog[i].summary)

\* Step B as the selection rule states it
ScanCandidate(nets, L) == Network(MinAddr(nets), L)

ScanValid(nets, L) ==
    /\ L < MinPrefixLen(nets)
    /\ \A i \in DOMAIN nets : NetContains(ScanCandidate(nets, L), nets[i])

ScanReaches5(nets, L) ==
    ScanValid(nets, L) /\ 20 * SumAddresses(nets) >= Pow2(AddrBits - L)

ScanRange == MinScanPrefix..MaxScanPrefix

SelectedLength(nets) ==
    IF \E L \in ScanRange : ScanReaches5(nets, L)
    THEN CHOOSE L \in ScanRange :
             ScanReaches5(nets, L) /\ \A M \in ScanRange : ScanReaches5(nets, M) => L <= M
    ELSE CHOOSE L \in ScanRange :
             ScanValid(nets, L) /\ \A M \in ScanRange : ScanValid(nets, M) => M <= L

C9_Coverage ==
    Done => \A i \in DOMAIN networks :
        Parsable(networks[i]) =>
            \E k \in DOMAIN optimized : StrContains(optimized[k], networks[i])

\* an original of an accepted pair is in no originals list of the mapping,
\* its entry having been replaced by a later pair of the same summary
C9_Witness ==
    /\ Done
    /\ \E i \in DOMAIN pairLog : Str(pairLog[i].second) \notin AllOriginals(summaries)

\* C10: two parsed inputs of the same classification key are members of a
\* group given to _find_tightest_summary, and a group whose members all
\* have a prefix length >= 9 gets a summary that contains all its members.
C10_GroupSummarized ==
    Done =>
        /\ \A i, j \in DOMAIN networks :
               /\ i # j /\ Parsable(networks[i]) /\ Parsable(networks[j])
               /\ major_key(ip_network(networks[i])) = major_key(ip_network(networks[j]))
               => \E g \in DOMAIN groupLog :
                      {ip_network(networks[i]), ip_network(networks[j])}
                          \subseteq Range(groupLog[g].members)
        /\ \A i \in DOMAIN groupLog :
               (\A k \in DOMAIN groupLog[i].members : groupLog[i].members[k].len >= 9) =>
                   /\ groupLog[i].result.ok
                   /\ \A k \in DOMAIN groupLog[i].members :
                          NetContains(ip_network(groupLog[i].result.summary),
                                      groupLog[i].members[k])

\* a group whose members are all /9 or longer was summarized by the
\* best-so-far fallback, no length of the scan having reached 5%
C10_Witness ==
    /\ Done
    /\ \E i \in DOMAIN groupLog :
          /\ \A k \in DOMAIN groupLog[i].members : groupLog[i].members[k].len >= 9
          /\ ~ExactAccepted(groupLog[i])
          /\ ~\E L \in ScanRange : ScanReaches5(groupLog[i].members, L)
          /\ groupLog[i].result.ok

=============================================================================
